---------------------------- MODULE Spec2Model ----------------------------
(***************************************************************************)
(* A model of toolchain/lowering/lowering_context.cpp: the LoweringContext *)
(* that turns a SemanticsIR into an llvm::Module in three phases (types,   *)
(* function declarations, function definitions).                           *)
(*                                                                         *)
(* Ids are the 0-based integers of the C++ code; the tables they index are *)
(* TLA+ sequences, read through At(seq, i) == seq[i + 1].                  *)
(***************************************************************************)
EXTENDS Integers, Sequences, FiniteSets, TLC

VARIABLES
  pc,            \* where the single thread of control is
  fatal,         \* which CARBON_CHECK / CARBON_FATAL ended the process ("" if none)
  semantics_ir_, \* the SemanticsIR the context was constructed over (read-only)
  llvm_module_,  \* TRUE while the unique_ptr owns the module, FALSE once moved out
  types_,        \* the Type Cache
  functions_,    \* the Function Cache
  locals_,       \* the Local Value Environment
  ti,            \* loop index of Run's type loop
  fi,            \* loop index of Run's declaration / definition loops
  pi,            \* loop index of the parameter loop of BuildFunctionDefinition
  bi,            \* position in the body block of BuildFunctionDefinition
  insert_point,  \* the builder's current insertion block
  blocks,        \* basic blocks created so far, in order
  instrs,        \* instructions emitted so far, in order
  next_obj,      \* number of LLVM objects with an identity created so far
  log            \* history: the calls made so far, in order

vars == << pc, fatal, semantics_ir_, llvm_module_, types_, functions_, locals_,
           ti, fi, pi, bi, insert_point, blocks, instrs, next_obj, log >>

-----------------------------------------------------------------------------
(* Bounds of the explored inputs.                                          *)

\* Longest type table of the pipeline specification Spec.
MaxTypes == 2

\* Most functions of a semantic IR in Spec.
MaxFuncs == 2

\* In SpecTypes the type table has up to ValidCount + MaxExtraTypes entries, so
\* that type ids beyond the built-in range exist.
MaxExtraTypes == 1

-----------------------------------------------------------------------------
(* SemanticsBuiltinKind: the node ids of the built-in kinds.  The          *)
(* enumeration lives in semantics_builtin_kind.def; the model keeps the    *)
(* three kinds BuildType lowers and one kind it does not.                  *)

TypeType == 0

IntegerType == 1

FloatingPointType == 2

EmptyTupleType == 3

ValidCount == 4

\* SemanticsTypeId / SemanticsNodeBlockId ::Invalid: is_valid() is index != -1.
InvalidIndex == -1

is_valid(id) == id # InvalidIndex

At(seq, i) == seq[i + 1]

-----------------------------------------------------------------------------
(* The semantic IR: nodes, node blocks, functions.                         *)

\* Node ids beyond the built-ins.
StructNode == 4     \* a StructType node; its operand is block MemberBlock

MemberA == 5        \* StructTypeField nodes, the members of StructNode

MemberB == 6

LiteralNode == 7    \* an IntegerLiteral node: a value, not a type

ParamA == 8         \* BindName nodes: (name, storage)

ParamB == 9

ParamDup == 10      \* a second BindName bound to ParamA's storage

StorA == 11         \* VarStorage nodes

StorB == 12

VarNode == 13       \* VarStorage node of a local variable

RetVar == 14        \* ReturnExpression of VarNode

RetParam == 15      \* ReturnExpression of StorA

MemberIds == {MemberA, MemberB}

\* Node blocks, by SemanticsNodeBlockId.
EmptyBlock == 0

ParamsAB == 1

ParamsDup == 2

MemberBlock == 3

BodyVar == 4

BodyParam == 5

BodyUnbound == 6

NodeBlocks ==
  << << >>,                      \* EmptyBlock
     << ParamA, ParamB >>,       \* ParamsAB
     << ParamA, ParamDup >>,     \* ParamsDup
     << MemberA, MemberB >>,     \* MemberBlock
     << VarNode, RetVar >>,      \* BodyVar:     var x; return x
     << LiteralNode, RetParam >>, \* BodyParam:  1; return a
     << RetVar >> >>             \* BodyUnbound: return x, x never declared

\* semantics_ir().GetNodeBlock(id)
GetNodeBlock(block_id) == At(NodeBlocks, block_id)

\* The kind and operands of each node.  type_id is filled in per semantic IR
\* (NodeTypeId below): it indexes that IR's type table.
NodeKind(node_id) ==
  CASE node_id < ValidCount -> "Builtin"
    [] node_id = StructNode -> "StructType"
    [] node_id \in MemberIds -> "StructTypeField"
    [] node_id = LiteralNode -> "IntegerLiteral"
    [] node_id \in {ParamA, ParamB, ParamDup} -> "BindName"
    [] node_id \in {StorA, StorB, VarNode} -> "VarStorage"
    [] node_id \in {RetVar, RetParam} -> "ReturnExpression"

\* GetAsStructType(): the member block of a StructType node.
GetAsStructType(node_id) == MemberBlock

\* GetAsBindName(): (name, storage node) of a BindName node.
GetAsBindName(node_id) ==
  CASE node_id = ParamA -> << "a", StorA >>
    [] node_id = ParamB -> << "b", StorB >>
    [] node_id = ParamDup -> << "c", StorA >>

\* GetAsReturnExpression(): the returned node.
GetAsReturnExpression(node_id) ==
  CASE node_id = RetVar -> VarNode
    [] node_id = RetParam -> StorA

\* node.type_id(): members carry the type ids the IR gives them, every other
\* typed node has the IR's first type.
NodeTypeId(ir, node_id) ==
  IF node_id \in MemberIds THEN ir.member_type[node_id] ELSE 0


-----------------------------------------------------------------------------
(* Target-IR objects.  Every value is a record with a kind field.           *)

\* An entry of a cache that resize_for_overwrite made and nothing wrote yet.
Unset == [kind |-> "unset"]

\* builder_.getInt32Ty(), builder_.getDoubleTy(): uniqued by the LLVMContext.
Int32Ty == [kind |-> "i32"]

DoubleTy == [kind |-> "double"]

\* llvm::StructType::create: a new identified struct type on every call; obj
\* is its identity.
StructTy(name, subtypes, obj) ==
  [kind |-> "struct", name |-> name, members |-> subtypes, obj |-> obj]

\* What reading an entry that was never written can yield: a pointer that is
\* no type at all, or one that happens to equal a live type.
Indeterminate == { [kind |-> "garbage"], Int32Ty }

\* LoweringContext::GetType (lowering_context.h): the Type Cache entry.
GetType(cache, type_id) == At(cache, type_id)

\* LoweringContext::GetFunction (lowering_context.h): the Function Cache entry.
GetFunction(cache, function_id) == At(cache, function_id)

-----------------------------------------------------------------------------
(* BuildType                                                               *)

\* The member type ids of a struct type, in member order.
MemberTypeIds(ir, node_id) ==
  LET refs == GetNodeBlock(GetAsStructType(node_id))
  IN  [k \in 1..Len(refs) |-> NodeTypeId(ir, refs[k])]

\* The CARBON_CHECK of the member loop.
MemberCheckBroken(type_id) == TRUE

MemberCheck(type_id) == type_id < ValidCount

\* Position of the first member that fails the check, or 0.
FirstBadMember(ir, node_id) ==
  LET ids == MemberTypeIds(ir, node_id)
      bad == {k \in 1..Len(ids) : ~MemberCheck(ids[k])}
  IN  IF bad = {} THEN 0 ELSE CHOOSE k \in bad : \A j \in bad : k <= j

\* Whether BuildType takes the first switch (a built-in it lowers itself).
IsLoweredBuiltin(node_id) ==
  node_id \in {EmptyTupleType, FloatingPointType, IntegerType}

\* The type ids BuildType passes to GetType, in order: those of the members
\* before the first one that fails the check.
TypeReads(ir, node_id) ==
  IF IsLoweredBuiltin(node_id) \/ NodeKind(node_id) # "StructType"
  THEN << >>
  ELSE LET ids == MemberTypeIds(ir, node_id)
           bad == FirstBadMember(ir, node_id)
       IN  IF bad = 0 THEN ids ELSE SubSeq(ids, 1, bad - 1)

\* A BuildType that answers the integer built-in from the Type Cache when its
\* first entry is written.
BuildTypeFromCache(ir, node_id, cache, obj) ==
  CASE node_id = EmptyTupleType ->
         [ok |-> TRUE, type |-> StructTy("EmptyTupleType", << >>, obj)]
    [] node_id = FloatingPointType ->
         [ok |-> TRUE, type |-> DoubleTy]
    [] node_id = IntegerType ->
         [ok |-> TRUE,
          type |-> IF Len(cache) > 0 /\ At(cache, 0) # Unset
                   THEN At(cache, 0) ELSE Int32Ty]
    [] OTHER ->
         [ok |-> FALSE, fatal |-> "CannotUseNodeAsType"]

\* BuildType(node_id) run against the Type Cache as it reads it (cache) with
\* obj the identity a newly created struct type gets.  The result is
\* [ok |-> TRUE, type |-> the llvm::Type*] or [ok |-> FALSE, fatal |-> why].
BuildType(ir, node_id, cache, obj) ==
  CASE node_id = EmptyTupleType ->
         [ok |-> TRUE, type |-> StructTy("EmptyTupleType", << >>, obj)]
    [] node_id = FloatingPointType ->
         [ok |-> TRUE, type |-> DoubleTy]
    [] node_id = IntegerType ->
         [ok |-> TRUE, type |-> Int32Ty]
    [] OTHER ->
         IF NodeKind(node_id) = "StructType"
         THEN IF FirstBadMember(ir, node_id) # 0
              THEN [ok |-> FALSE, fatal |-> "MemberNotBuiltin"]
              ELSE LET ids == MemberTypeIds(ir, node_id)
                   IN  [ok |-> TRUE,
                        type |-> StructTy("StructLiteralType",
                                   [k \in 1..Len(ids) |-> GetType(cache, ids[k])],
                                   obj)]
         ELSE [ok |-> FALSE, fatal |-> "CannotUseNodeAsType"]

\* A BuildType that lowered member types by calling itself would return only
\* when no member it descends into has a struct type again.
BuildTypeRecursing(ir, node_id) ==
  LET ids == TypeReads(ir, node_id)
  IN  \A k \in 1..Len(ids) : NodeKind(At(ir.types, ids[k])) # "StructType"

\* Whether a call of BuildType comes back to Run (with a type or a fatal
\* failure): it makes no call of BuildType, and its only loop walks the
\* member block once.
BuildTypeReturns(ir, node_id) == TRUE

\* Whether a call creates an object with an identity of its own.
CreatesObject(type) == type.kind = "struct"


-----------------------------------------------------------------------------
(* Reading a cache that may hold entries nothing wrote yet.                *)

\* The type ids among ids whose Type Cache entry was never written.
UnsetAmong(cache, ids) ==
  {ids[k] : k \in {j \in 1..Len(ids) : At(cache, ids[j]) = Unset}}

\* The cache as one call reads it: ind gives what each unwritten entry the
\* call reads happens to hold.
Seen(cache, ind) ==
  [k \in 1..Len(cache) |->
     IF (k - 1) \in DOMAIN ind THEN ind[k - 1] ELSE cache[k]]

\* The history entries of the GetType calls on ids, in order.
ReadEvents(cache, seen, ids) ==
  [k \in 1..Len(ids) |->
     [op |-> "GetType", type_id |-> ids[k],
      populated |-> At(cache, ids[k]) # Unset,
      value |-> GetType(seen, ids[k])]]

-----------------------------------------------------------------------------
(* BuildFunctionDeclaration                                                *)

\* semantics_ir().GetFunction(function_id)
SemFunction(ir, function_id) == At(ir.functions, function_id)

\* A return type that falls back on the first type of the table.
ReturnTypeIdFirstType(ir, function) ==
  IF is_valid(function.return_type_id) THEN function.return_type_id ELSE 0

\* The type id of the return type: the declared one, or the empty tuple's.

ReturnTypeId(ir, function) ==
  IF is_valid(function.return_type_id)
  THEN function.return_type_id
  ELSE ir.empty_tuple_type_id

\* The type ids the declaration looks up: each parameter's, then the return's.
DeclTypeReads(ir, function_id) ==
  LET function == SemFunction(ir, function_id)
      param_refs == GetNodeBlock(function.param_refs_id)
  IN  [k \in 1..Len(param_refs) |-> NodeTypeId(ir, param_refs[k])]
        \o << ReturnTypeId(ir, function) >>

\* The llvm::Function* created for function_id; obj is its identity.
BuildFunctionDeclaration(ir, function_id, cache, obj) ==
  LET function == SemFunction(ir, function_id)
      param_refs == GetNodeBlock(function.param_refs_id)
  IN  [kind |-> "function",
       obj |-> obj,
       linkage |-> "external",
       name |-> function.name,
       ret |-> GetType(cache, ReturnTypeId(ir, function)),
       args |-> [k \in 1..Len(param_refs) |->
                   GetType(cache, NodeTypeId(ir, param_refs[k]))],
       arg_names |-> [k \in 1..Len(param_refs) |->
                        GetAsBindName(param_refs[k])[1]]]

\* llvm_function->getArg(i)
GetArg(llvm_function, i) ==
  [kind |-> "Argument", fn |-> llvm_function.obj, index |-> i]

-----------------------------------------------------------------------------
(* The Local Value Environment and GetLocalLoaded                          *)

NoLocals == << >>

\* locals_.insert({key, value}).second
CanInsert(locals, key) == key \notin DOMAIN locals

\* locals_ after a successful insert.
Inserted(locals, key, value) ==
  [k \in DOMAIN locals \cup {key} |-> IF k = key THEN value ELSE locals[k]]

\* A test that takes only stack allocations for addresses.
NeedsLoadAllocaOnly(value) == value.kind = "Alloca"

\* llvm::isa<llvm::AllocaInst, llvm::GetElementPtrInst>(value)
NeedsLoad(value) == value.kind \in {"Alloca", "GetElementPtr"}

\* A GetLocalLoaded that records the loaded value in place of the address.
GetLocalLoadedCaching(ir, locals, cache, node_id, obj) ==
  IF node_id \notin DOMAIN locals
  THEN [ok |-> FALSE, fatal |-> "MissingLocal"]
  ELSE LET value == locals[node_id]
       IN  IF NeedsLoad(value)
           THEN LET load == [kind |-> "Load", obj |-> obj,
                             type |-> GetType(cache, NodeTypeId(ir, node_id)),
                             addr |-> value]
                IN  [ok |-> TRUE, value |-> load, emitted |-> << load >>,
                     reads |-> << NodeTypeId(ir, node_id) >>,
                     locals |-> [locals EXCEPT ![node_id] = load]]
           ELSE [ok |-> TRUE, value |-> value, emitted |-> << >>,
                 reads |-> << >>, locals |-> locals]

\* GetLocalLoaded(node_id): [ok, value, emitted, reads, locals]; obj is the
\* identity of the load it may create, locals the Local Value Environment
\* after the call.  GetLocal (lowering_context.h) fails fatally on an id that
\* has no entry.
GetLocalLoaded(ir, locals, cache, node_id, obj) ==
  IF node_id \notin DOMAIN locals
  THEN [ok |-> FALSE, fatal |-> "MissingLocal"]
  ELSE LET value == locals[node_id]
       IN  IF NeedsLoad(value)
           THEN LET load == [kind |-> "Load", obj |-> obj,
                             type |-> GetType(cache, NodeTypeId(ir, node_id)),
                             addr |-> value]
                IN  [ok |-> TRUE, value |-> load, emitted |-> << load >>,
                     reads |-> << NodeTypeId(ir, node_id) >>,
                     locals |-> locals]
           ELSE [ok |-> TRUE, value |-> value, emitted |-> << >>,
                 reads |-> << >>, locals |-> locals]

-----------------------------------------------------------------------------
(* Node handlers (lowering_handle.cpp), one per node kind.  Each result is  *)
(* [ok, locals, emitted, reads] or [ok |-> FALSE, fatal].                   *)

\* LoweringContext::SetLocal (lowering_context.h): a checked insert.
SetLocal(locals, node_id, value, emitted, reads) ==
  IF CanInsert(locals, node_id)
  THEN [ok |-> TRUE, locals |-> Inserted(locals, node_id, value),
        emitted |-> emitted, reads |-> reads]
  ELSE [ok |-> FALSE, fatal |-> "DuplicateLocal"]

LoweringHandle(ir, node_id, locals, cache, obj) ==
  CASE NodeKind(node_id) = "VarStorage" ->
         LET alloca == [kind |-> "Alloca", obj |-> obj,
                        type |-> GetType(cache, NodeTypeId(ir, node_id))]
         IN  SetLocal(locals, node_id, alloca, << alloca >>,
                      << NodeTypeId(ir, node_id) >>)
    [] NodeKind(node_id) = "IntegerLiteral" ->
         SetLocal(locals, node_id, [kind |-> "ConstantInt"], << >>, << >>)
    [] NodeKind(node_id) = "ReturnExpression" ->
         LET r == GetLocalLoaded(ir, locals, cache,
                                 GetAsReturnExpression(node_id), obj)
         IN  IF r.ok
             THEN [ok |-> TRUE, locals |-> r.locals,
                   emitted |-> r.emitted \o << [kind |-> "Ret", value |-> r.value] >>,
                   reads |-> r.reads]
             ELSE r
    [] OTHER ->
         [ok |-> TRUE, locals |-> locals, emitted |-> << >>, reads |-> << >>]


-----------------------------------------------------------------------------
(* The semantic IRs explored.                                              *)

\* Function descriptors: name, parameter block, return type, body block.
Fn(name, params, ret, body) ==
  [name |-> name, param_refs_id |-> params, return_type_id |-> ret,
   body_id |-> body]

FunctionMenu ==
  { Fn("decl", ParamsAB, InvalidIndex, InvalidIndex),  \* declared elsewhere
    Fn("var", EmptyBlock, 0, BodyVar),
    Fn("id", ParamsAB, 0, BodyParam),
    Fn("dup", ParamsDup, InvalidIndex, BodyParam),
    Fn("unbound", EmptyBlock, InvalidIndex, BodyUnbound) }

\* Type tables of Spec hold the three lowered built-ins and a non-type node.
TypeRefs == {IntegerType, FloatingPointType, EmptyTupleType, LiteralNode}

\* Type tables of SpecTypes hold struct types, a built-in BuildType does not
\* lower, one it does, and a non-type node.
TypeRefsT == {TypeType, IntegerType, StructNode, LiteralNode}

Tables(refs, max) == UNION {[1..n -> refs] : n \in 1..max}

SemanticsIRs ==
  { [has_errors |-> e, types |-> t, member_type |-> [m \in MemberIds |-> 0],
     empty_tuple_type_id |-> u, functions |-> f] :
      e \in BOOLEAN, t \in Tables(TypeRefs, MaxTypes),
      u \in 0..(MaxTypes - 1),
      f \in UNION {[1..n -> FunctionMenu] : n \in 0..MaxFuncs} }

SemanticsIRsT ==
  { [has_errors |-> e, types |-> t, member_type |-> m,
     empty_tuple_type_id |-> 0, functions |-> << >>] :
      e \in BOOLEAN, t \in Tables(TypeRefsT, ValidCount + MaxExtraTypes),
      m \in [MemberIds -> 0..(ValidCount + MaxExtraTypes - 1)] }

\* Every type id of the IR indexes its type table.
WellFormed(ir) ==
  /\ ir.empty_tuple_type_id < Len(ir.types)
  /\ \A m \in MemberIds : ir.member_type[m] < Len(ir.types)

-----------------------------------------------------------------------------
(* The state machine.                                                      *)

NoBlock == InvalidIndex

InitFor(irs) ==
  /\ semantics_ir_ \in {ir \in irs : WellFormed(ir)}
  /\ pc = "new"
  /\ fatal = ""
  /\ llvm_module_ = FALSE
  /\ types_ = << >>
  /\ functions_ = << >>
  /\ locals_ = NoLocals
  /\ ti = 0
  /\ fi = 0
  /\ pi = 0
  /\ bi = 0
  /\ insert_point = NoBlock
  /\ blocks = << >>
  /\ instrs = << >>
  /\ next_obj = 0
  /\ log = << >>

Init == InitFor(SemanticsIRs)

InitTypes == InitFor(SemanticsIRsT)

\* A failed check that lets the caller carry on.
DieContinues(why) == pc' = pc /\ fatal' = why

\* A failed CARBON_CHECK / CARBON_FATAL ends the process.
Die(why) == pc' = "fatal" /\ fatal' = why

\* The constructor's CARBON_CHECK.
CtorCheckMissing(ir) == TRUE

CtorCheck(ir) == ~ir.has_errors

\* LoweringContext::LoweringContext
Construct ==
  /\ pc = "new"
  /\ llvm_module_' = TRUE
  /\ log' = Append(log, [op |-> "Construct"])
  /\ IF CtorCheck(semantics_ir_)
     THEN pc' = "constructed" /\ fatal' = fatal
     ELSE Die("InvalidSemanticsIR")
  /\ UNCHANGED << semantics_ir_, types_, functions_, locals_, ti, fi, pi, bi,
                  insert_point, blocks, instrs, next_obj >>

\* Run(), up to the type loop: the check that the module is still owned, and
\* the resize of the Type Cache.
RunBegin ==
  /\ pc \in {"constructed", "returned"}
  /\ log' = Append(log, [op |-> "Run"])
  /\ IF llvm_module_
     THEN /\ types_' = [k \in 1..Len(semantics_ir_.types) |-> Unset]
          /\ ti' = 0
          /\ pc' = "types"
          /\ fatal' = fatal
     ELSE /\ Die("RunCalledTwice")
          /\ UNCHANGED << types_, ti >>
  /\ UNCHANGED << semantics_ir_, llvm_module_, functions_, locals_, fi, pi, bi,
                  insert_point, blocks, instrs, next_obj >>

\* The conditions of Run's loops.
TypeLoopCondShort(i, n) == i < n - 1

TypeLoopCond(i, n) == i < n

\* A function loop that stops one function early.
FunctionLoopCondShort(i, n) == i < n - 1

FunctionLoopCond(i, n) == i < n

\* One iteration of the type loop: types_[i] = BuildType(types[i]).
LowerType ==
  /\ pc = "types"
  /\ TypeLoopCond(ti, Len(semantics_ir_.types))
  /\ BuildTypeReturns(semantics_ir_, At(semantics_ir_.types, ti))
  /\ LET node_id == At(semantics_ir_.types, ti)
         reads == TypeReads(semantics_ir_, node_id)
     IN  \E ind \in [UnsetAmong(types_, reads) -> Indeterminate] :
           LET seen == Seen(types_, ind)
               r == BuildType(semantics_ir_, node_id, seen, next_obj)
           IN  /\ log' = log \o ReadEvents(types_, seen, reads)
                             \o << [op |-> "BuildType", index |-> ti,
                                    node |-> node_id, returned |-> r.ok] >>
               /\ IF r.ok
                  THEN /\ types_' = [types_ EXCEPT ![ti + 1] = r.type]
                       /\ next_obj' = IF CreatesObject(r.type)
                                      THEN next_obj + 1 ELSE next_obj
                       /\ ti' = ti + 1
                       /\ UNCHANGED << pc, fatal >>
                  ELSE /\ Die(r.fatal)
                       /\ UNCHANGED << types_, next_obj, ti >>
  /\ UNCHANGED << semantics_ir_, llvm_module_, functions_, locals_, fi, pi, bi,
                  insert_point, blocks, instrs >>

\* The type loop ends; the Function Cache is resized.
BeginDeclarations ==
  /\ pc = "types"
  /\ ~TypeLoopCond(ti, Len(semantics_ir_.types))
  /\ functions_' = [k \in 1..Len(semantics_ir_.functions) |-> Unset]
  /\ fi' = 0
  /\ pc' = "decls"
  /\ UNCHANGED << fatal, semantics_ir_, llvm_module_, types_, locals_, ti, pi,
                  bi, insert_point, blocks, instrs, next_obj, log >>

\* One iteration of the declaration loop.
LowerDeclaration ==
  /\ pc = "decls"
  /\ FunctionLoopCond(fi, Len(semantics_ir_.functions))
  /\ LET reads == DeclTypeReads(semantics_ir_, fi)
     IN  \E ind \in [UnsetAmong(types_, reads) -> Indeterminate] :
           LET seen == Seen(types_, ind)
               f == BuildFunctionDeclaration(semantics_ir_, fi, seen, next_obj)
           IN  /\ functions_' = [functions_ EXCEPT ![fi + 1] = f]
               /\ log' = log \o ReadEvents(types_, seen, reads)
                             \o << [op |-> "BuildFunctionDeclaration",
                                    function |-> fi, result |-> f] >>
  /\ next_obj' = next_obj + 1
  /\ fi' = fi + 1
  /\ UNCHANGED << pc, fatal, semantics_ir_, llvm_module_, types_, locals_, ti,
                  pi, bi, insert_point, blocks, instrs >>

\* The declaration loop ends.
BeginDefinitions ==
  /\ pc = "decls"
  /\ ~FunctionLoopCond(fi, Len(semantics_ir_.functions))
  /\ fi' = 0
  /\ pc' = "defs"
  /\ UNCHANGED << fatal, semantics_ir_, llvm_module_, types_, functions_,
                  locals_, ti, pi, bi, insert_point, blocks, instrs, next_obj,
                  log >>


-----------------------------------------------------------------------------
(* BuildFunctionDefinition, one step per loop iteration.                   *)

\* The function whose definition the definition loop is at.
CurrentFunction == SemFunction(semantics_ir_, fi)

\* if (!body_id.is_valid()) return;
HasBodyAlways(function) == TRUE

HasBody(function) == is_valid(function.body_id)

\* A dispatch loop that starts at the second node of the body.
BodyNodesSkipFirst(function) ==
  IF is_valid(function.body_id) /\ GetNodeBlock(function.body_id) # << >>
  THEN Tail(GetNodeBlock(function.body_id)) ELSE << >>

\* The body block walked by the dispatch loop.
BodyNodes(function) ==
  IF is_valid(function.body_id) THEN GetNodeBlock(function.body_id) ELSE << >>

\* auto* llvm_function = GetFunction(function_id);
DefinitionTargetFirst(cache, function_id) == GetFunction(cache, 0)

DefinitionTarget(cache, function_id) == GetFunction(cache, function_id)

\* BuildFunctionDefinition up to the parameter loop: return at once without
\* a body; otherwise open the entry block and check that locals_ is empty.
EnterDefinition ==
  /\ pc = "defs"
  /\ FunctionLoopCond(fi, Len(semantics_ir_.functions))
  /\ IF ~HasBody(CurrentFunction)
     THEN /\ log' = Append(log, [op |-> "BuildFunctionDefinition",
                                 function |-> fi, body |-> FALSE])
          /\ fi' = fi + 1
          /\ UNCHANGED << pc, fatal, pi, insert_point, blocks >>
     ELSE LET llvm_function == DefinitionTarget(functions_, fi)
          IN  /\ log' = Append(log, [op |-> "BuildFunctionDefinition",
                                     function |-> fi, body |-> TRUE,
                                     target |-> llvm_function])
              /\ blocks' = Append(blocks, [name |-> "entry",
                                           parent |-> llvm_function])
              /\ insert_point' = Len(blocks)
              /\ pi' = 0
              /\ fi' = fi
              /\ IF locals_ = NoLocals
                 THEN pc' = "params" /\ fatal' = fatal
                 ELSE Die("LocalsNotEmpty")
  /\ UNCHANGED << semantics_ir_, llvm_module_, types_, functions_, locals_,
                  ti, bi, instrs, next_obj >>

\* locals_ after inserting a parameter over an existing key.
BindOverwrite(locals, key, value) ==
  [ok |-> TRUE, locals |-> Inserted(locals, key, value)]

\* CARBON_CHECK(locals_.insert({param_storage, arg}).second)
Bind(locals, key, value) ==
  IF CanInsert(locals, key)
  THEN [ok |-> TRUE, locals |-> Inserted(locals, key, value)]
  ELSE [ok |-> FALSE, locals |-> locals]

\* One iteration of the parameter loop.
BindParam ==
  /\ pc = "params"
  /\ LET param_refs == GetNodeBlock(CurrentFunction.param_refs_id)
     IN  /\ pi < Len(param_refs)
         /\ LET param_storage == GetAsBindName(At(param_refs, pi))[2]
                llvm_function == DefinitionTarget(functions_, fi)
                r == Bind(locals_, param_storage, GetArg(llvm_function, pi))
            IN  /\ locals_' = r.locals
                /\ log' = Append(log, [op |-> "BindParam", function |-> fi,
                                       param |-> pi, storage |-> param_storage,
                                       value |-> GetArg(llvm_function, pi),
                                       inserted |-> r.ok])
                /\ IF r.ok
                   THEN pi' = pi + 1 /\ UNCHANGED << pc, fatal >>
                   ELSE Die("DuplicateParam") /\ pi' = pi
  /\ UNCHANGED << semantics_ir_, llvm_module_, types_, functions_, ti, fi, bi,
                  insert_point, blocks, instrs, next_obj >>

\* The parameter loop ends; the dispatch loop starts.
BeginBody ==
  /\ pc = "params"
  /\ pi = Len(GetNodeBlock(CurrentFunction.param_refs_id))
  /\ bi' = 0
  /\ pc' = "body"
  /\ UNCHANGED << fatal, semantics_ir_, llvm_module_, types_, functions_,
                  locals_, ti, fi, pi, insert_point, blocks, instrs, next_obj,
                  log >>

\* One iteration of the dispatch loop: the handler of the node's kind.
DispatchNode ==
  /\ pc = "body"
  /\ bi < Len(BodyNodes(CurrentFunction))
  /\ LET node_id == At(BodyNodes(CurrentFunction), bi)
         r == LoweringHandle(semantics_ir_, node_id, locals_, types_, next_obj)
     IN  /\ IF r.ok
            THEN /\ locals_' = r.locals
                 /\ instrs' = instrs \o
                      [k \in 1..Len(r.emitted) |->
                         [block |-> insert_point, inst |-> r.emitted[k]]]
                 /\ next_obj' = next_obj + Len(r.emitted)
                 /\ log' = log \o ReadEvents(types_, types_, r.reads)
                               \o << [op |-> "Handle", function |-> fi,
                                      position |-> bi, node |-> node_id,
                                      kind |-> NodeKind(node_id)] >>
                 /\ bi' = bi + 1
                 /\ UNCHANGED << pc, fatal >>
            ELSE /\ Die(r.fatal)
                 /\ log' = Append(log, [op |-> "Handle", function |-> fi,
                                        position |-> bi, node |-> node_id,
                                        kind |-> NodeKind(node_id)])
                 /\ UNCHANGED << locals_, instrs, next_obj, bi >>
  /\ UNCHANGED << semantics_ir_, llvm_module_, types_, functions_, ti, fi, pi,
                  insert_point, blocks >>

\* locals_.clear()
ClearedNot(locals) == locals

Cleared(locals) == NoLocals

\* The dispatch loop ends: clear locals_ and return to Run's loop.
ExitDefinition ==
  /\ pc = "body"
  /\ bi = Len(BodyNodes(CurrentFunction))
  /\ locals_' = Cleared(locals_)
  /\ fi' = fi + 1
  /\ pc' = "defs"
  /\ log' = Append(log, [op |-> "DefinitionDone", function |-> fi])
  /\ UNCHANGED << fatal, semantics_ir_, llvm_module_, types_, functions_, ti,
                  pi, bi, insert_point, blocks, instrs, next_obj >>

\* What llvm_module_ holds after `return std::move(llvm_module_)`.
MovedFromKept == TRUE

MovedFrom == FALSE

\* The definition loop ends: Run returns the module.
RunReturn ==
  /\ pc = "defs"
  /\ ~FunctionLoopCond(fi, Len(semantics_ir_.functions))
  /\ llvm_module_' = MovedFrom
  /\ pc' = "returned"
  /\ log' = Append(log, [op |-> "Return"])
  /\ UNCHANGED << fatal, semantics_ir_, types_, functions_, locals_, ti, fi,
                  pi, bi, insert_point, blocks, instrs, next_obj >>

Next ==
  \/ Construct
  \/ RunBegin
  \/ LowerType
  \/ BeginDeclarations
  \/ LowerDeclaration
  \/ BeginDefinitions
  \/ EnterDefinition
  \/ BindParam
  \/ BeginBody
  \/ DispatchNode
  \/ ExitDefinition
  \/ RunReturn

Spec == Init /\ [][Next]_vars

\* The steps Run takes on its own once it was called.  The single thread of
\* control takes its next step whenever it has one.
RunSteps ==
  \/ LowerType
  \/ BeginDeclarations
  \/ LowerDeclaration
  \/ BeginDefinitions
  \/ EnterDefinition
  \/ BindParam
  \/ BeginBody
  \/ DispatchNode
  \/ ExitDefinition
  \/ RunReturn

\* Semantic IRs without functions whose type tables mix a built-in and the
\* struct type, with members of any type of the table (the struct included).
SemanticsIRsS ==
  { [has_errors |-> FALSE, types |-> t, member_type |-> m,
     empty_tuple_type_id |-> 0, functions |-> << >>] :
      t \in Tables({IntegerType, StructNode}, MaxTypes),
      m \in [MemberIds -> 0..(MaxTypes - 1)] }

InitStructs == InitFor(SemanticsIRsS)

\* The pipeline over the IRs of Spec and over struct types, Run never
\* stopping halfway of its own accord.
SpecRun == (Init \/ InitStructs) /\ [][Next]_vars /\ WF_vars(RunSteps)

\* The pipeline over semantic IRs without functions and with struct types.
NextTypes ==
  \/ Construct
  \/ RunBegin
  \/ LowerType
  \/ BeginDeclarations
  \/ BeginDefinitions
  \/ RunReturn

SpecTypes == InitTypes /\ [][NextTypes]_vars


-----------------------------------------------------------------------------
(* Reading the history.                                                    *)

Events(op) == {k \in 1..Len(log) : log[k].op = op}

NumTypes == Len(semantics_ir_.types)

NumFunctions == Len(semantics_ir_.functions)

\* The handle the declaration phase returned for function_id.
DeclaredAs(function_id) ==
  LET k == CHOOSE j \in Events("BuildFunctionDeclaration") :
             log[j].function = function_id
  IN  log[k].result

\* Two parameters of the function are bound to the same storage node.
HasDuplicateParam(function) ==
  LET param_refs == GetNodeBlock(function.param_refs_id)
  IN  \E i, j \in 1..Len(param_refs) :
        i < j /\ GetAsBindName(param_refs[i])[2] = GetAsBindName(param_refs[j])[2]

\* The process is inside BuildFunctionDefinition of function fi (or died there).
InDefinition ==
  \/ pc \in {"params", "body"}
  \/ pc = "fatal" /\ fatal \in {"DuplicateParam", "DuplicateLocal", "MissingLocal"}

-----------------------------------------------------------------------------
(* GetLocalLoaded on its own.  A node handler running in the body of a     *)
(* function reads the Local Value Environment through GetLocalLoaded.  The *)
(* set of handlers is open-ended, so the environment it meets is drawn     *)
(* from every kind of target value a handler can have recorded.            *)

\* Most GetLocalLoaded calls of one run.
MaxLoads == 2

\* Most basic blocks of the function being lowered.
MaxBlocks == 2

\* The nodes a handler asks for: two storage nodes and a literal.
LocalNodes == {StorA, VarNode, LiteralNode}

\* The semantic IRs: one type, one function with parameters and a body.
SemanticsIRsL ==
  { [has_errors |-> FALSE, types |-> << t >>,
     member_type |-> [m \in MemberIds |-> 0],
     empty_tuple_type_id |-> 0,
     functions |-> << Fn("id", ParamsAB, 0, BodyParam) >>] :
      t \in {IntegerType, FloatingPointType} }

\* The addresses earlier handlers created in the entry block.
AllocaOf(cache) == [kind |-> "Alloca", obj |-> 1, type |-> GetType(cache, 0)]

ElementPtr == [kind |-> "GetElementPtr", obj |-> 2]

\* The target values a node can be recorded with: the two address kinds, an
\* argument of the function, a constant.
LocalValues(cache, llvm_function) ==
  { AllocaOf(cache), ElementPtr, GetArg(llvm_function, 0),
    [kind |-> "ConstantInt"] }

\* Every environment over some of the nodes.
Environments(values) ==
  UNION {[nodes -> values] : nodes \in SUBSET LocalNodes}

\* The address instructions of an environment, in creation order.
AddressInstrs(locals, cache) ==
  LET present(v) == \E n \in DOMAIN locals : locals[n] = v
  IN  (IF present(AllocaOf(cache))
       THEN << [block |-> 0, inst |-> AllocaOf(cache)] >> ELSE << >>)
      \o (IF present(ElementPtr)
          THEN << [block |-> 0, inst |-> ElementPtr] >> ELSE << >>)

\* The context in the middle of the dispatch loop of function 0: types and
\* declarations are lowered, the entry block is open, and handlers have
\* recorded some values.
InitLocals ==
  /\ semantics_ir_ \in SemanticsIRsL
  /\ pc = "handler"
  /\ fatal = ""
  /\ llvm_module_ = TRUE
  /\ types_ = [k \in 1..Len(semantics_ir_.types) |->
                 BuildType(semantics_ir_, semantics_ir_.types[k], << >>, 0).type]
  /\ functions_ = << BuildFunctionDeclaration(semantics_ir_, 0, types_, 0) >>
  /\ locals_ \in Environments(LocalValues(types_, functions_[1]))
  /\ ti = Len(semantics_ir_.types)
  /\ fi = 0
  /\ pi = Len(GetNodeBlock(CurrentFunction.param_refs_id))
  /\ bi = 0
  /\ insert_point = 0
  /\ blocks = << [name |-> "entry", parent |-> functions_[1]] >>
  /\ instrs = AddressInstrs(locals_, types_)
  /\ next_obj = 3
  /\ log = << >>

\* A handler calls GetLocalLoaded(node_id); a load it creates is inserted at
\* the builder's insertion point.
HandlerGetLocalLoaded ==
  /\ pc = "handler"
  /\ Cardinality(Events("GetLocalLoaded")) < MaxLoads
  /\ \E node_id \in LocalNodes :
       LET r == GetLocalLoaded(semantics_ir_, locals_, types_, node_id, next_obj)
       IN  IF r.ok
           THEN /\ locals_' = r.locals
                /\ instrs' = instrs \o
                     [k \in 1..Len(r.emitted) |->
                        [block |-> insert_point, inst |-> r.emitted[k]]]
                /\ next_obj' = next_obj + Len(r.emitted)
                /\ log' = log \o ReadEvents(types_, types_, r.reads)
                              \o << [op |-> "GetLocalLoaded", node |-> node_id,
                                     found |-> TRUE,
                                     recorded |-> locals_[node_id],
                                     returned |-> r.value,
                                     emitted |-> r.emitted,
                                     at |-> insert_point] >>
                /\ UNCHANGED << pc, fatal >>
           ELSE /\ Die(r.fatal)
                /\ log' = Append(log, [op |-> "GetLocalLoaded",
                                       node |-> node_id, found |-> FALSE])
                /\ UNCHANGED << locals_, instrs, next_obj >>
  /\ UNCHANGED << semantics_ir_, llvm_module_, types_, functions_, ti, fi, pi,
                  bi, insert_point, blocks >>

\* A handler that introduces control flow opens a new basic block and moves
\* the insertion point to it.
HandlerSetInsertPoint ==
  /\ pc = "handler"
  /\ Len(blocks) < MaxBlocks
  /\ blocks' = Append(blocks, [name |-> "block",
                               parent |-> GetFunction(functions_, fi)])
  /\ insert_point' = Len(blocks)
  /\ UNCHANGED << pc, fatal, semantics_ir_, llvm_module_, types_, functions_,
                  locals_, ti, fi, pi, bi, instrs, next_obj, log >>

NextLocals ==
  \/ HandlerGetLocalLoaded
  \/ HandlerSetInsertPoint

SpecLocals == InitLocals /\ [][NextLocals]_vars

-----------------------------------------------------------------------------
(* C1: in every execution of Run(), BuildFunctionDeclaration is called only *)
(* after BuildType has run for every entry of the type table, and          *)
(* BuildFunctionDefinition only after BuildFunctionDeclaration has run for *)
(* every function id; type work never follows declaration or definition    *)
(* work, and declaration work never follows definition work.               *)
C1_PhasesNeverInterleave ==
  \A k \in 1..Len(log) :
    /\ log[k].op = "BuildFunctionDeclaration" =>
         \A t \in 0..(NumTypes - 1) :
           \E j \in 1..(k - 1) :
             log[j].op = "BuildType" /\ log[j].index = t /\ log[j].returned
    /\ log[k].op = "BuildFunctionDefinition" =>
         \A f \in 0..(NumFunctions - 1) :
           \E j \in 1..(k - 1) :
             log[j].op = "BuildFunctionDeclaration" /\ log[j].function = f
    /\ log[k].op = "BuildType" =>
         \A j \in 1..(k - 1) :
           log[j].op \notin {"BuildFunctionDeclaration",
                             "BuildFunctionDefinition", "BindParam", "Handle"}
    /\ log[k].op = "BuildFunctionDeclaration" =>
         \A j \in 1..(k - 1) :
           log[j].op \notin {"BuildFunctionDefinition", "BindParam", "Handle"}

\* A Run over two types and two functions, the second with a body, returned.
C1_Witness ==
  /\ pc = "returned"
  /\ NumTypes = 2
  /\ NumFunctions = 2
  /\ \E k \in Events("Handle") : log[k].function = 1

(* C2: every GetType read of a Run (member types during the type phase,    *)
(* parameter and return types during the declaration phase, node types in  *)
(* the handlers) reads a Type Cache entry that was written earlier in the  *)
(* same Run.                                                               *)
C2_EveryReadIsPopulated ==
  \A k \in Events("GetType") : log[k].populated

(* C3: the Local Value Environment is empty whenever Run's definition loop *)
(* is between two calls of BuildFunctionDefinition: immediately before a   *)
(* call starts and immediately after it returns, with or without a body.   *)
C3_LocalsEmptyBetweenDefinitions ==
  pc = "defs" => locals_ = NoLocals

\* Two functions with bodies were lowered; the first bound parameters, the
\* second's handler recorded a local.
C3_Witness ==
  /\ pc = "defs"
  /\ fi = 2
  /\ \E k \in Events("BindParam") : log[k].function = 0 /\ log[k].inserted
  /\ \E k \in Events("Handle") :
       log[k].function = 1 /\ log[k].kind = "VarStorage"

(* C4: when two parameters of a function with a body are bound to the same *)
(* storage node, BuildFunctionDefinition aborts at the second insertion:   *)
(* the insertion fails, the process dies right there, the entry of the     *)
(* first parameter is still the first parameter's argument, and no body    *)
(* node of that function is ever dispatched.                               *)
C4_DuplicateParamIsFatal ==
  /\ \A k \in Events("BindParam") :
       LET param_refs ==
             GetNodeBlock(SemFunction(semantics_ir_, log[k].function).param_refs_id)
           repeated ==
             \E q \in 0..(log[k].param - 1) :
               GetAsBindName(At(param_refs, q))[2] = log[k].storage
       IN  /\ repeated <=> ~log[k].inserted
           /\ ~log[k].inserted =>
                /\ k = Len(log)
                /\ pc = "fatal"
                /\ fatal = "DuplicateParam"
           /\ (InDefinition /\ log[k].function = fi) =>
                \E q \in 0..log[k].param :
                  /\ GetAsBindName(At(param_refs, q))[2] = log[k].storage
                  /\ \A p \in 0..(q - 1) :
                       GetAsBindName(At(param_refs, p))[2] # log[k].storage
                  /\ locals_[log[k].storage] = GetArg(At(functions_, fi), q)
  /\ \A k \in Events("Handle") :
       ~HasDuplicateParam(SemFunction(semantics_ir_, log[k].function))
  /\ pc = "body" => ~HasDuplicateParam(CurrentFunction)

\* The process died on the second of two parameters bound to one storage
\* node, and that node still maps to the first parameter's argument.
C4_Witness ==
  /\ pc = "fatal"
  /\ fatal = "DuplicateParam"
  /\ pi = 1
  /\ locals_[StorA] = GetArg(At(functions_, fi), 0)

(* C5: Run() is one-shot: a module is returned at most once, and a Run()   *)
(* called after the module was returned dies before lowering anything.     *)
C5_RunIsOneShot ==
  /\ Cardinality(Events("Return")) <= 1
  /\ \A k \in Events("Return") :
       /\ \A j \in (k + 1)..Len(log) : log[j].op = "Run"
       /\ (\E j \in (k + 1)..Len(log) : log[j].op = "Run") =>
            pc = "fatal" /\ fatal = "RunCalledTwice"
  /\ pc = "returned" => ~llvm_module_

\* Run() was called again after it returned the module.
C5_Witness ==
  /\ fatal = "RunCalledTwice"
  /\ Cardinality(Events("Run")) = 2
  /\ Cardinality(Events("BuildType")) = NumTypes

(* C6: constructing the context over a semantic IR that has errors is      *)
(* fatal: Run never starts and nothing is ever lowered for it.             *)
C6_ErrorsAreFatalAtConstruction ==
  semantics_ir_.has_errors =>
    /\ pc \in {"new", "fatal"}
    /\ pc = "fatal" => fatal = "InvalidSemanticsIR"
    /\ \A k \in 1..Len(log) : log[k].op = "Construct"
    /\ types_ = << >> /\ functions_ = << >> /\ blocks = << >>

\* The constructor ran over an IR with errors.
C6_Witness ==
  /\ semantics_ir_.has_errors
  /\ pc = "fatal"
  /\ Len(semantics_ir_.functions) > 0

(* C7: the target function BuildFunctionDefinition(f) uses, for the entry  *)
(* block and for the arguments bound to parameters, is the handle          *)
(* BuildFunctionDeclaration(f) returned and stored at functions_[f]; from   *)
(* the start of the definition phase on every Function Cache entry holds   *)
(* the handle its declaration returned.                                    *)
C7_DefinitionUsesDeclaredFunction ==
  /\ \A k \in Events("BuildFunctionDefinition") :
       log[k].body =>
         /\ log[k].target.kind = "function"
         /\ log[k].target = DeclaredAs(log[k].function)
         /\ log[k].target = At(functions_, log[k].function)
         /\ \E b \in 1..Len(blocks) : blocks[b].parent = log[k].target
  /\ \A k \in Events("BindParam") :
       log[k].value = GetArg(DeclaredAs(log[k].function), log[k].param)
  /\ \A b \in 1..Len(blocks) :
       \E k \in Events("BuildFunctionDefinition") :
         log[k].body /\ blocks[b].parent = DeclaredAs(log[k].function)
  /\ (pc \in {"defs", "params", "body", "returned"}
        \/ Events("BuildFunctionDefinition") # {}) =>
       \A f \in 0..(NumFunctions - 1) :
         At(functions_, f).kind = "function" /\ At(functions_, f) = DeclaredAs(f)

\* Run returned after lowering the body of the second of two functions, which
\* has parameters.
C7_Witness ==
  /\ pc = "returned"
  /\ NumFunctions = 2
  /\ \E k \in Events("BindParam") : log[k].function = 1 /\ log[k].inserted
  /\ \E k \in Events("Handle") : log[k].function = 1


(* C8: idempotent type caching: every GetType(t) of one Run yields the     *)
(* same target type object, and no target type is constructed twice for    *)
(* the same semantic type reference: two type-table entries that name the  *)
(* same node are lowered to one and the same object.                       *)
C8_IdempotentTypeCaching ==
  /\ \A j, k \in Events("GetType") :
       log[j].type_id = log[k].type_id => log[j].value = log[k].value
  /\ \A i, j \in 0..(NumTypes - 1) :
       ( /\ i < Len(types_) /\ j < Len(types_)
         /\ At(semantics_ir_.types, i) = At(semantics_ir_.types, j)
         /\ At(types_, i) # Unset /\ At(types_, j) # Unset ) =>
         At(types_, i) = At(types_, j)

(* C9: for a function without a body the Function Cache entry is populated *)
(* by the declaration phase, and BuildFunctionDefinition returns at once:  *)
(* it creates no block, emits no instruction, dispatches no handler, and   *)
(* leaves the Local Value Environment and the insertion point unchanged.   *)
C9_NoBodyDefinitionIsNoOp ==
  [][ ( /\ pc = "defs"
        /\ fi < NumFunctions
        /\ ~is_valid(SemFunction(semantics_ir_, fi).body_id) ) =>
      ( /\ At(functions_, fi).kind = "function"
        /\ blocks' = blocks
        /\ instrs' = instrs
        /\ locals_' = locals_
        /\ insert_point' = insert_point
        /\ pc' = "defs"
        /\ fi' = fi + 1
        /\ log' = Append(log, [op |-> "BuildFunctionDefinition",
                               function |-> fi, body |-> FALSE]) ) ]_vars

\* A function without a body was passed over after a function with a body
\* had set the insertion point.
C9_Witness ==
  /\ pc = "defs"
  /\ fi = 2
  /\ ~is_valid(SemFunction(semantics_ir_, 1).body_id)
  /\ insert_point # NoBlock
  /\ instrs # << >>
  /\ At(functions_, 1).kind = "function"

\* BuildType aborts on a struct type one of whose members has a type id
\* beyond the built-in range.
HasMemberBeyondBuiltins(ir, node_id) ==
  /\ NodeKind(node_id) = "StructType"
  /\ \E k \in 1..Len(GetNodeBlock(MemberBlock)) :
       ir.member_type[GetNodeBlock(MemberBlock)[k]] >= ValidCount

\* What every BuildType call of the history did, given when it must abort.
BuildTypeAbortsExactlyWhen(aborts(_)) ==
  \A k \in Events("BuildType") :
    /\ log[k].returned <=> ~aborts(log[k].node)
    /\ log[k].returned =>
         At(types_, log[k].index).kind \in {"i32", "double", "struct"}
    /\ ~log[k].returned =>
         /\ k = Len(log)
         /\ pc = "fatal"
         /\ ti = log[k].index
         /\ At(types_, log[k].index) = Unset

\* The claim's condition: an id outside the built-in range whose node is no
\* struct type, or a struct type with a member beyond the built-in range.
C10_ClaimedAbort(node_id) ==
  \/ node_id >= ValidCount /\ NodeKind(node_id) # "StructType"
  \/ HasMemberBeyondBuiltins(semantics_ir_, node_id)

\* The code's condition: the same, and every built-in other than the three
\* BuildType lowers itself.
C10_ActualAbort(node_id) ==
  \/ /\ node_id \notin {EmptyTupleType, FloatingPointType, IntegerType}
     /\ NodeKind(node_id) # "StructType"
  \/ HasMemberBeyondBuiltins(semantics_ir_, node_id)

(* C10 as claimed: BuildType returns a target type or aborts, and aborts   *)
(* exactly when the id is outside the built-in range and no struct type,   *)
(* or a struct type with a member beyond the built-in range; an abort      *)
(* writes no Type Cache entry and ends lowering.                           *)
C10_AbortsExactlyWhenClaimed == BuildTypeAbortsExactlyWhen(C10_ClaimedAbort)

(* C10 as amended: BuildType returns a target type or aborts, and aborts   *)
(* exactly when the id is none of the three built-ins it lowers (empty     *)
(* tuple, floating point, integer) and its node is no struct type, or it   *)
(* is a struct type with a member beyond the built-in range; an abort      *)
(* writes no Type Cache entry and ends lowering.                           *)
C10_AbortsExactlyWhenUnresolvable == BuildTypeAbortsExactlyWhen(C10_ActualAbort)

\* BuildType died on a struct type whose second member is beyond the
\* built-in range, after types before it were lowered.
C10_Witness ==
  /\ pc = "fatal"
  /\ fatal = "MemberNotBuiltin"
  /\ ti > 0
  /\ semantics_ir_.member_type[MemberA] < ValidCount

-----------------------------------------------------------------------------
\* The call that ended the process, by the check that failed in it.
FailingOp(why) ==
  CASE why = "InvalidSemanticsIR" -> "Construct"
    [] why = "RunCalledTwice" -> "Run"
    [] why \in {"CannotUseNodeAsType", "MemberNotBuiltin"} -> "BuildType"
    [] why = "LocalsNotEmpty" -> "BuildFunctionDefinition"
    [] why = "DuplicateParam" -> "BindParam"
    [] why \in {"MissingLocal", "DuplicateLocal"} -> "Handle"

\* Everything the three phases do for the whole IR is in log[1..k-1].
AllPhasesCompleteBefore(k) ==
  /\ \A t \in 0..(NumTypes - 1) :
       \E j \in 1..(k - 1) :
         log[j].op = "BuildType" /\ log[j].index = t /\ log[j].returned
  /\ \A f \in 0..(NumFunctions - 1) :
       /\ \E j \in 1..(k - 1) :
            log[j].op = "BuildFunctionDeclaration" /\ log[j].function = f
       /\ \E j \in 1..(k - 1) :
            log[j].op = "BuildFunctionDefinition" /\ log[j].function = f
       /\ HasBody(SemFunction(semantics_ir_, f)) =>
            /\ \E j \in 1..(k - 1) :
                 log[j].op = "DefinitionDone" /\ log[j].function = f
            /\ Cardinality({j \in 1..(k - 1) :
                              log[j].op = "Handle" /\ log[j].function = f})
                 = Len(BodyNodes(SemFunction(semantics_ir_, f)))
  /\ \A j \in 1..(k - 1) :
       /\ log[j].op = "BuildType" => log[j].returned
       /\ log[j].op = "BindParam" => log[j].inserted

(* C11: Run() returns a module only when all three phases completed without *)
(* a fatal failure; a fatal failure (in the type phase, and wherever a     *)
(* check exists, in a declaration or in the middle of a function body)     *)
(* ends lowering at the failing call: nothing is processed after it and no *)
(* module is returned afterwards.                                          *)
C11_FatalStopsLowering ==
  /\ (fatal # "") <=> (pc = "fatal")
  /\ \A k \in Events("Return") : AllPhasesCompleteBefore(k)
  /\ pc = "returned" => fatal = "" /\ log[Len(log)].op = "Return"
  /\ pc = "fatal" =>
       /\ log[Len(log)].op = FailingOp(fatal)
       /\ fatal # "RunCalledTwice" => Events("Return") = {}
       /\ fatal = "RunCalledTwice" => log[Len(log) - 1].op = "Return"
       /\ fatal \in {"CannotUseNodeAsType", "MemberNotBuiltin"} =>
            /\ ~log[Len(log)].returned
            /\ Events("BuildFunctionDeclaration") = {}
            /\ Events("BuildFunctionDefinition") = {}
       /\ fatal = "DuplicateParam" => ~log[Len(log)].inserted
       /\ InDefinition =>
            \A j \in 1..Len(log) :
              log[j].op \in {"BuildFunctionDefinition", "BindParam", "Handle"}
                => log[j].function <= fi

\* The process died in the middle of the body of the first of two functions;
\* the second was declared and is never defined.
C11_Witness ==
  /\ pc = "fatal"
  /\ fatal = "MissingLocal"
  /\ NumFunctions = 2
  /\ fi = 0
  /\ Cardinality(Events("BuildFunctionDeclaration")) = 2

-----------------------------------------------------------------------------
\* The entry the type phase wrote at type_id: what its BuildType call stored.
ProducedByTypePhase(type_id) ==
  /\ \E j \in Events("BuildType") : log[j].index = type_id /\ log[j].returned
  /\ At(types_, type_id) # Unset

(* C12: the signature BuildFunctionDeclaration builds for a function        *)
(* without a declared return type (invalid return_type_id) has as return   *)
(* type exactly the Type Cache entry of the IR's empty-tuple type id, the  *)
(* entry the type phase wrote; with a valid return_type_id it is the Type  *)
(* Cache entry of that id.                                                 *)
C12_ReturnTypeOfSignature ==
  \A k \in Events("BuildFunctionDeclaration") :
    LET function == SemFunction(semantics_ir_, log[k].function)
        declared == function.return_type_id
        empty == semantics_ir_.empty_tuple_type_id
    IN  /\ ~is_valid(declared) =>
             /\ log[k].result.ret = At(types_, empty)
             /\ ProducedByTypePhase(empty)
        /\ is_valid(declared) =>
             /\ log[k].result.ret = At(types_, declared)
             /\ ProducedByTypePhase(declared)
        /\ At(functions_, log[k].function).ret = log[k].result.ret

\* Both cases were declared: a function without a return type, in an IR whose
\* empty-tuple type is not the first type of the table, and one with one.
C12_Witness ==
  /\ pc = "returned"
  /\ NumFunctions = 2
  /\ ~is_valid(SemFunction(semantics_ir_, 0).return_type_id)
  /\ is_valid(SemFunction(semantics_ir_, 1).return_type_id)
  /\ semantics_ir_.empty_tuple_type_id = 1
  /\ At(types_, 1).kind = "struct"
  /\ At(types_, 0) # At(types_, 1)

-----------------------------------------------------------------------------
(* C13: for a struct-type node all of whose members have built-in type ids *)
(* BuildType returns a named aggregate with exactly as many members as the *)
(* member block, the i-th member type being the Type Cache entry (the      *)
(* lowered type) of the i-th member's type id, in declared order.          *)
C13_StructMembersMatchCache ==
  \A k \in Events("BuildType") :
    (log[k].returned /\ NodeKind(log[k].node) = "StructType") =>
      LET type == At(types_, log[k].index)
          ids == MemberTypeIds(semantics_ir_, log[k].node)
      IN  /\ type.kind = "struct"
          /\ type.name = "StructLiteralType"
          /\ Len(type.members) = Len(GetNodeBlock(GetAsStructType(log[k].node)))
          /\ \A i \in 1..Len(ids) :
               At(types_, ids[i]) # Unset => type.members[i] = At(types_, ids[i])

-----------------------------------------------------------------------------
\* What BuildType returns for node_id in the current state, identity aside:
\* the kind of the type and, for an aggregate, its members.
ShapeOf(type) ==
  IF type.kind = "struct"
  THEN [kind |-> "struct", members |-> type.members]
  ELSE type

BuildTypeNow(node_id) ==
  BuildType(semantics_ir_, node_id, types_, next_obj)

(* C14: in every state of the context BuildType of the integer built-in    *)
(* yields the 32-bit integer type, of the floating-point built-in the      *)
(* 64-bit float type, and of the empty-tuple built-in an aggregate without *)
(* members, whatever the semantic IR holds and whatever was lowered        *)
(* before; every Type Cache entry written for a built-in has that shape.   *)
C14_BuiltinsLowerTheSameAlways ==
  /\ BuildTypeNow(IntegerType) = [ok |-> TRUE, type |-> Int32Ty]
  /\ BuildTypeNow(FloatingPointType) = [ok |-> TRUE, type |-> DoubleTy]
  /\ BuildTypeNow(EmptyTupleType).ok
  /\ ShapeOf(BuildTypeNow(EmptyTupleType).type)
       = [kind |-> "struct", members |-> << >>]
  /\ \A k \in Events("BuildType") :
       IsLoweredBuiltin(log[k].node) =>
         /\ log[k].returned
         /\ ShapeOf(At(types_, log[k].index)) =
              ShapeOf(BuildType(semantics_ir_, log[k].node, << >>, 0).type)
         /\ log[k].node = IntegerType => At(types_, log[k].index) = Int32Ty
         /\ log[k].node = FloatingPointType => At(types_, log[k].index) = DoubleTy

\* The integer built-in was lowered after an empty tuple had been lowered and
\* stored at the first index, and two functions were lowered after that.
C14_Witness ==
  /\ pc = "returned"
  /\ semantics_ir_.types = << EmptyTupleType, IntegerType >>
  /\ At(types_, 1) = Int32Ty
  /\ At(types_, 0).kind = "struct"
  /\ NumFunctions = 2

-----------------------------------------------------------------------------
\* Positions in the history of the events op of function_id, in order.
EventsOf(op, function_id) ==
  {k \in Events(op) : log[k].function = function_id}

\* How many members of a set of positions lie before position k.
Before(positions, k) == Cardinality({j \in positions : j < k})

(* C15: in BuildFunctionDefinition of a function with a body, the nodes of *)
(* the body block are dispatched to the handler of their kind one by one   *)
(* in block order, each once, the first only after every parameter was     *)
(* bound; a definition that completes has dispatched every node of the     *)
(* block, and no handler runs for a node outside the block.                *)
C15_BodyDispatchedInOrder ==
  \A f \in 0..(NumFunctions - 1) :
    LET function == SemFunction(semantics_ir_, f)
        body == IF is_valid(function.body_id)
                THEN GetNodeBlock(function.body_id) ELSE << >>
        params == GetNodeBlock(function.param_refs_id)
        handled == EventsOf("Handle", f)
        bound == EventsOf("BindParam", f)
    IN  /\ Cardinality(handled) <= Len(body)
        /\ \A k \in handled :
             /\ log[k].position = Before(handled, k)
             /\ log[k].node = At(body, log[k].position)
             /\ log[k].kind = NodeKind(log[k].node)
             /\ Before(bound, k) = Len(params)
             /\ \A j \in bound : j < k /\ log[j].inserted
             /\ \E j \in EventsOf("BuildFunctionDefinition", f) :
                  j < k /\ log[j].body
             /\ \A j \in EventsOf("DefinitionDone", f) : k < j
        /\ \A k \in bound :
             /\ log[k].param = Before(bound, k)
             /\ log[k].storage = GetAsBindName(At(params, log[k].param))[2]
        /\ EventsOf("DefinitionDone", f) # {} =>
             /\ Cardinality(handled) = Len(body)
             /\ Cardinality(EventsOf("DefinitionDone", f)) = 1
        /\ (pc = "body" /\ fi = f) => bi = Cardinality(handled)

\* The definition of a function with two parameters and a body of two nodes
\* was completed, after another function's body.
C15_Witness ==
  /\ pc = "defs"
  /\ fi = 2
  /\ Cardinality(EventsOf("BindParam", 1)) = 2
  /\ Cardinality(EventsOf("Handle", 1)) = 2
  /\ Cardinality(EventsOf("Handle", 0)) = 2
  /\ EventsOf("DefinitionDone", 1) # {}

-----------------------------------------------------------------------------
\* The process is inside BuildFunctionDefinition of function fi, at any point
\* from the creation of its entry block on (or died there).
DefiningFunction ==
  \/ InDefinition
  \/ pc = "fatal" /\ fatal = "LocalsNotEmpty"

\* The entry block of the definition in progress belongs to function fi.
EntryBlockIsOf(function_id) ==
  /\ insert_point # NoBlock
  /\ At(blocks, insert_point).parent = At(functions_, function_id)

\* The entry for key was inserted while lowering function_id: by the binding
\* of one of its parameters to one of its own arguments, or by the handler of
\* one of its body nodes, whose instruction (if it made one) is in the
\* function's entry block.
InsertedWhileLowering(function_id, key) ==
  \/ \E k \in Events("BindParam") :
       /\ log[k].function = function_id
       /\ log[k].storage = key
       /\ log[k].inserted
       /\ locals_[key] = log[k].value
       /\ locals_[key].fn = At(functions_, function_id).obj
  \/ /\ \E k \in Events("Handle") :
          log[k].function = function_id /\ log[k].node = key
     /\ locals_[key].kind # "Argument"
     /\ locals_[key].kind = "Alloca" =>
          \E n \in 1..Len(instrs) :
            instrs[n] = [block |-> insert_point, inst |-> locals_[key]]

(* C16: at every point of the definition lowering of a function f every    *)
(* entry of the Local Value Environment was inserted during the lowering   *)
(* of f itself, by f's parameter binding or by the handler of one of f's   *)
(* body nodes; no entry recorded while lowering another function is        *)
(* visible, in any order of the functions.                                 *)
C16_LocalsBelongToCurrentFunction ==
  DefiningFunction =>
    /\ EntryBlockIsOf(fi)
    /\ \A key \in DOMAIN locals_ : InsertedWhileLowering(fi, key)

\* The second function's body is being lowered with its own parameter bound
\* to a storage node the first function had bound as well.
C16_Witness ==
  /\ pc = "body"
  /\ fi = 1
  /\ StorA \in DOMAIN locals_
  /\ locals_[StorA].fn = At(functions_, 1).obj
  /\ \E k \in Events("BindParam") :
       log[k].function = 0 /\ log[k].storage = StorA /\ log[k].inserted

-----------------------------------------------------------------------------
\* The calls op of the history carry, in the field id, the ids 0, 1, 2, ...
\* in this order: none twice, none skipped, at most count of them.
InIdOrder(op, id(_), count) ==
  /\ Cardinality(Events(op)) <= count
  /\ \A k \in Events(op) : id(log[k]) = Before(Events(op), k)

TypeIndexOf(event) == event.index

FunctionOf(event) == event.function

(* C17: Run() lowers each entry of the type table exactly once, creates    *)
(* exactly one declaration per function id and attempts each definition    *)
(* exactly once, each phase in strictly increasing id order; when Run has  *)
(* returned, the Type Cache holds one written entry per type-table index   *)
(* and the Function Cache one declared function per function id.           *)
C17_EachIdOnceInOrder ==
  /\ InIdOrder("BuildType", TypeIndexOf, NumTypes)
  /\ InIdOrder("BuildFunctionDeclaration", FunctionOf, NumFunctions)
  /\ InIdOrder("BuildFunctionDefinition", FunctionOf, NumFunctions)
  /\ Events("Return") # {} =>
       /\ Cardinality(Events("BuildType")) = NumTypes
       /\ Cardinality(Events("BuildFunctionDeclaration")) = NumFunctions
       /\ Cardinality(Events("BuildFunctionDefinition")) = NumFunctions
       /\ Len(types_) = NumTypes
       /\ \A t \in 0..(NumTypes - 1) : At(types_, t) # Unset
       /\ Len(functions_) = NumFunctions
       /\ \A f \in 0..(NumFunctions - 1) :
            /\ At(functions_, f).kind = "function"
            /\ At(functions_, f).name = SemFunction(semantics_ir_, f).name
            /\ \A g \in 0..(NumFunctions - 1) :
                 f # g => At(functions_, f).obj # At(functions_, g).obj

\* Run returned after two types, two declarations and two definitions, one
\* of them without a body.
C17_Witness ==
  /\ pc = "returned"
  /\ Cardinality(Events("BuildType")) = 2
  /\ Cardinality(Events("BuildFunctionDeclaration")) = 2
  /\ Cardinality(Events("BuildFunctionDefinition")) = 2
  /\ Cardinality(Events("DefinitionDone")) = 1

-----------------------------------------------------------------------------
\* The GetLocalLoaded calls of the history that found an entry.
Loads == {k \in Events("GetLocalLoaded") : log[k].found}

\* The recorded value is an address: a stack allocation or a computed
\* element address.
IsAddressKind(value) == value.kind \in {"Alloca", "GetElementPtr"}

\* The call at k emitted one load, of the node's cached type from the
\* recorded address, and returned it.
LoadedAt(k) ==
  /\ Len(log[k].emitted) = 1
  /\ log[k].emitted[1].kind = "Load"
  /\ log[k].emitted[1].addr = log[k].recorded
  /\ log[k].emitted[1].type =
       At(types_, NodeTypeId(semantics_ir_, log[k].node))
  /\ log[k].returned = log[k].emitted[1]

(* C18: GetLocalLoaded(id) emits a load of the node's cached type from the *)
(* recorded address and returns the loaded value exactly when the value    *)
(* recorded for id is an address (a stack allocation or a computed element *)
(* address); otherwise it emits nothing and returns the recorded value.    *)
(* Two calls whose recorded values have the same kind decide alike,        *)
(* whatever the kinds of their semantic nodes.                             *)
C18_LoadExactlyForAddresses ==
  /\ \A k \in Loads :
       /\ IsAddressKind(log[k].recorded) <=> log[k].emitted # << >>
       /\ IsAddressKind(log[k].recorded) => LoadedAt(k)
       /\ ~IsAddressKind(log[k].recorded) => log[k].returned = log[k].recorded
  /\ \A j, k \in Loads :
       log[j].recorded.kind = log[k].recorded.kind =>
         (log[j].emitted = << >>) <=> (log[k].emitted = << >>)

\* Two nodes of the same kind were asked for: the one recorded with an
\* element address was loaded, the one recorded with an argument was not.
C18_Witness ==
  \E j, k \in Loads :
    /\ NodeKind(log[j].node) = NodeKind(log[k].node)
    /\ log[j].recorded.kind = "GetElementPtr"
    /\ log[j].emitted # << >>
    /\ log[k].recorded.kind = "Argument"
    /\ log[k].emitted = << >>

(* C19: GetLocalLoaded never modifies the Local Value Environment: after   *)
(* any number of calls the entry of every node asked for still holds the   *)
(* value recorded for it, the load is not cached, and every call on an     *)
(* address entry emits a load of its own at the insertion point current    *)
(* at that call.                                                           *)
C19_LoadsAreNeverCached ==
  /\ \A k \in Loads :
       /\ log[k].node \in DOMAIN locals_
       /\ locals_[log[k].node] = log[k].recorded
       /\ IsAddressKind(log[k].recorded) =>
            /\ LoadedAt(k)
            /\ \E n \in 1..Len(instrs) :
                 instrs[n] = [block |-> log[k].at, inst |-> log[k].returned]
  /\ \A j, k \in Loads :
       (j < k /\ IsAddressKind(log[j].recorded)
              /\ IsAddressKind(log[k].recorded)) =>
         /\ log[j].returned # log[k].returned
         /\ log[j].returned.obj # log[k].returned.obj
  /\ \A n \in DOMAIN locals_ : locals_[n].kind # "Load"

\* The same stack allocation was loaded twice, the second time after the
\* insertion point had moved to another block.
C19_Witness ==
  \E j, k \in Loads :
    /\ j < k
    /\ log[j].node = log[k].node
    /\ log[j].recorded.kind = "Alloca"
    /\ log[j].at # log[k].at
    /\ log[k].emitted # << >>

-----------------------------------------------------------------------------
\* Run is over: it returned the module or the process died.
Finished == pc \in {"returned", "fatal"}

(* C20: for every finite semantic IR, every handler returning, a Run() that *)
(* was started eventually finishes: it returns the module or stops in a    *)
(* fatal failure; it never loops forever and never waits, and lowering a   *)
(* struct type does not descend into its member types.                     *)
C20_RunTerminates == (pc = "types") ~> Finished

\* Run returned after lowering a struct type one of whose members has the
\* struct type itself.
C20_Witness ==
  /\ pc = "returned"
  /\ \E t \in 0..(NumTypes - 1) :
       /\ NodeKind(At(semantics_ir_.types, t)) = "StructType"
       /\ At(types_, t).kind = "struct"
       /\ \E m \in MemberIds : semantics_ir_.member_type[m] = t

=============================================================================
